---- MODULE Spec2Model ----
(***************************************************************************)
(* Cart engine of the e-commerce REST server (buyerController.js), over    *)
(* the relational store declared in prisma/schema.prisma.                  *)
(*                                                                         *)
(* Every request handler is an async function: between two awaited         *)
(* storage calls other requests may run, so each storage call is one       *)
(* atomic step and the handler's locals (cart, existingCartItem) are kept  *)
(* per request.  Money is kept in cents, a discount is a whole percentage. *)
(***************************************************************************)
EXTENDS Integers, Sequences, FiniteSets, TLC

VARIABLES users, products, carts, cartProducts, nextCartId, nextCartProductId,
          nextUserId, nextProductId, reqs

vars == <<users, products, carts, cartProducts, nextCartId, nextCartProductId,
          nextUserId, nextProductId, reqs>>

db == <<users, products, carts, cartProducts, nextCartId, nextCartProductId,
        nextUserId, nextProductId>>

-----------------------------------------------------------------------------
(* Bounds of the exploration                                               *)

MaxReqs == 2

MaxCartId == 2

MaxCartProductId == 2

MaxQuantity == 3

-----------------------------------------------------------------------------
(* Optional values: a JavaScript value that may be undefined / null        *)

None == << >>

Some(v) == <<v>>

Val(o) == o[1]

Reqs == 1..MaxReqs

-----------------------------------------------------------------------------
(* The store                                                               *)

\* bcrypt.hash(password, 10)
Hash(password) == <<"bcrypt", password>>

SeedUsers ==
    { [id |-> 1, name |-> "Sue", email |-> "seller@shop",
       password |-> Hash("pw1"), role |-> "seller"],
      [id |-> 2, name |-> "Ann", email |-> "ann@shop",
       password |-> Hash("pw2"), role |-> "buyer"],
      [id |-> 3, name |-> "Bob", email |-> "bob@shop",
       password |-> Hash("pw3"), role |-> "buyer"] }

SeedProducts ==
    { [id |-> 1, name |-> "Sample Product", category |-> "Electronics",
       description |-> "d1", price |-> 10000, discount |-> 10, sellerId |-> 1],
      [id |-> 2, name |-> "Shoe", category |-> "Shoes",
       description |-> "d2", price |-> 1999, discount |-> 15, sellerId |-> 1] }

UserIds == {u.id : u \in users}

BuyerIds == {u.id : u \in {x \in users : x.role = "buyer"}}

ProductIds == {p.id : p \in products}

ProductById(pid) == CHOOSE p \in products : p.id = pid

CartsOf(buyerId) == {c \in carts : c.buyerId = buyerId}

CartIds == {c.id : c \in carts}

LinesOfCart(cartId) == {l \in cartProducts : l.cartId = cartId}

LinesOfBuyer(buyerId) ==
    {l \in cartProducts : \E c \in CartsOf(buyerId) : l.cartId = c.id}

\* prisma.cart.findFirst({where: {buyerId}}): no orderBy, so any matching row
CartFindFirst(buyerId) ==
    IF CartsOf(buyerId) = {} THEN {None} ELSE {Some(c) : c \in CartsOf(buyerId)}

\* prisma.cartProduct.findUnique({where: {cartId_productId}})
CartProductFindUnique(cartId, productId) ==
    LET m == {l \in cartProducts : l.cartId = cartId /\ l.productId = productId}
    IN  IF m = {} THEN None ELSE Some(CHOOSE l \in m : TRUE)

\* the table without its unique index
NoUniqueConstraint(cartId, productId) == TRUE

\* @@unique([cartId, productId]) of model CartProduct
UniqueCartIdProductId(cartId, productId) ==
    \A l \in cartProducts : ~(l.cartId = cartId /\ l.productId = productId)

-----------------------------------------------------------------------------
(* Requests                                                                *)

IdleReq ==
    [op |-> "idle", pc |-> "idle", buyerId |-> 0, productId |-> None,
     quantity |-> None, cart |-> None, existingCartItem |-> None,
     status |-> 0, body |-> None,
     token |-> None, user |-> None, next |-> FALSE,
     id |-> None, data |-> None, existing |-> None]

\* res.status(..).json(..): the handler returns and its locals are gone
Respond(r, status, body) ==
    [r EXCEPT !.pc = "done", !.status = status, !.body = body,
              !.cart = None, !.existingCartItem = None, !.existing = None]

Init ==
    /\ users = SeedUsers
    /\ products = SeedProducts
    /\ carts = {}
    /\ cartProducts = {}
    /\ nextCartId = 1
    /\ nextCartProductId = 1
    /\ nextUserId = 4
    /\ nextProductId = 3
    /\ reqs = [r \in Reqs |-> IdleReq]

-----------------------------------------------------------------------------
(* addToCart                                                               *)

\* JavaScript !productId: undefined, null and 0 are falsy
Falsy(v) == v = None \/ Val(v) = 0

\* parseInt of a numeric id is the id itself
ParseInt(v) == Val(v)

\* the guard written with quantity < 0
InvalidAddInputStrict(productId, quantity) ==
    Falsy(productId) \/ (quantity # None /\ Val(quantity) < 0)

\* the guard without its quantity test
InvalidAddInputNoQuantity(productId, quantity) == Falsy(productId)

\* the guard !productId || quantity <= 0 (undefined <= 0 is false)
InvalidAddInput(productId, quantity) ==
    Falsy(productId) \/ (quantity # None /\ Val(quantity) <= 0)

\* the update writing the requested quantity over the stored one
OverwrittenQuantity(existingCartItem, quantity) ==
    IF quantity = None THEN None ELSE Some(Val(quantity))

\* existingCartItem.quantity + quantity: NaN (None) when quantity is undefined;
\* Prisma rejects NaN as the value of an Int column, so that update throws
IncrementedQuantity(existingCartItem, quantity) ==
    IF quantity = None THEN None ELSE Some(existingCartItem.quantity + Val(quantity))

\* quantity || 1
QuantityOrOne(quantity) == IF Falsy(quantity) THEN 1 ELSE Val(quantity)

\* validation, then prisma.cart.findFirst
AddToCartFindCart(r, buyerId, productId, quantity) ==
    /\ reqs[r].pc = "idle"
    /\ LET q == [IdleReq EXCEPT !.op = "addToCart", !.buyerId = buyerId,
                                !.productId = productId, !.quantity = quantity]
       IN  IF InvalidAddInput(productId, quantity)
           THEN reqs' = [reqs EXCEPT ![r] = Respond(q, 400, None)]
           ELSE \E cart \in CartFindFirst(buyerId) :
                    reqs' = [reqs EXCEPT ![r] =
                        [q EXCEPT !.cart = cart,
                                  !.pc = IF cart = None THEN "createCart" ELSE "findItem"]]
    /\ UNCHANGED db

\* prisma.cart.create({data: {buyerId}}): Cart.buyerId references User.id and
\* is not unique, so a second cart of the same buyer is accepted
AddToCartCreateCart(r) ==
    /\ reqs[r].op = "addToCart" /\ reqs[r].pc = "createCart"
    /\ IF reqs[r].buyerId \in UserIds
       THEN /\ nextCartId <= MaxCartId
            /\ LET cart == [id |-> nextCartId, buyerId |-> reqs[r].buyerId]
               IN  /\ carts' = carts \cup {cart}
                   /\ reqs' = [reqs EXCEPT ![r].cart = Some(cart), ![r].pc = "findItem"]
            /\ nextCartId' = nextCartId + 1
       ELSE /\ reqs' = [reqs EXCEPT ![r] = Respond(reqs[r], 500, None)]
            /\ UNCHANGED <<carts, nextCartId>>
    /\ UNCHANGED <<users, products, nextUserId, nextProductId, cartProducts, nextCartProductId>>

\* prisma.cartProduct.findUnique on (cart.id, parseInt(productId))
AddToCartFindItem(r) ==
    /\ reqs[r].op = "addToCart" /\ reqs[r].pc = "findItem"
    /\ LET item == CartProductFindUnique(Val(reqs[r].cart).id, ParseInt(reqs[r].productId))
       IN  reqs' = [reqs EXCEPT ![r].existingCartItem = item,
                                ![r].pc = IF item = None THEN "createItem" ELSE "updateItem"]
    /\ UNCHANGED db

\* prisma.cartProduct.update({where: {id}, data: {quantity: old + quantity}})
AddToCartUpdateItem(r) ==
    /\ reqs[r].op = "addToCart" /\ reqs[r].pc = "updateItem"
    /\ LET existing == Val(reqs[r].existingCartItem)
           data == IncrementedQuantity(existing, reqs[r].quantity)
           rows == {l \in cartProducts : l.id = existing.id}
       IN  IF data = None \/ rows = {}
           THEN /\ reqs' = [reqs EXCEPT ![r] = Respond(reqs[r], 500, None)]
                /\ UNCHANGED cartProducts
           ELSE /\ Val(data) <= MaxQuantity
                /\ LET old == CHOOSE l \in rows : TRUE
                       updatedCartItem == [old EXCEPT !.quantity = Val(data)]
                   IN  /\ cartProducts' = (cartProducts \ {old}) \cup {updatedCartItem}
                       /\ reqs' = [reqs EXCEPT ![r] =
                                      Respond(reqs[r], 200, Some(updatedCartItem))]
    /\ UNCHANGED <<users, products, nextUserId, nextProductId, carts, nextCartId, nextCartProductId>>

\* prisma.cartProduct.create connecting the cart and the product
AddToCartCreateItem(r) ==
    /\ reqs[r].op = "addToCart" /\ reqs[r].pc = "createItem"
    /\ LET cartId == Val(reqs[r].cart).id
           productId == ParseInt(reqs[r].productId)
       IN  IF /\ cartId \in CartIds
              /\ productId \in ProductIds
              /\ UniqueCartIdProductId(cartId, productId)
           THEN /\ nextCartProductId <= MaxCartProductId
                /\ LET cartItem == [id |-> nextCartProductId, cartId |-> cartId,
                                    productId |-> productId,
                                    quantity |-> QuantityOrOne(reqs[r].quantity)]
                   IN  /\ cartProducts' = cartProducts \cup {cartItem}
                       /\ reqs' = [reqs EXCEPT ![r] = Respond(reqs[r], 201, Some(cartItem))]
                /\ nextCartProductId' = nextCartProductId + 1
           ELSE /\ reqs' = [reqs EXCEPT ![r] = Respond(reqs[r], 500, None)]
                /\ UNCHANGED <<cartProducts, nextCartProductId>>
    /\ UNCHANGED <<users, products, nextUserId, nextProductId, carts, nextCartId>>

-----------------------------------------------------------------------------
(* removeFromCart                                                          *)

\* the filter without its cart condition: the product's lines in every cart
RemoveWhereAnyCart(l, buyerId, productId) == l.productId = productId

\* where: {productId: parseInt(productId), cart: {buyerId}}
RemoveWhere(l, buyerId, productId) ==
    /\ l.productId = productId
    /\ \E c \in carts : c.id = l.cartId /\ c.buyerId = buyerId

\* prisma.cartProduct.deleteMany, then 404 when count === 0
RemoveFromCart(r, buyerId, productId) ==
    /\ reqs[r].pc = "idle"
    /\ LET q == [IdleReq EXCEPT !.op = "removeFromCart", !.buyerId = buyerId,
                                !.productId = productId]
           deleted == {l \in cartProducts : RemoveWhere(l, buyerId, ParseInt(productId))}
           count == Cardinality(deleted)
       IN  /\ cartProducts' = cartProducts \ deleted
           /\ reqs' = [reqs EXCEPT ![r] =
                  IF count = 0 THEN Respond(q, 404, None)
                  ELSE Respond(q, 200, Some([count |-> count]))]
    /\ UNCHANGED <<users, products, nextUserId, nextProductId, carts, nextCartId, nextCartProductId>>

-----------------------------------------------------------------------------
(* clearCart                                                               *)

\* prisma.cart.findFirst, 404 when there is no cart
ClearCartFindCart(r, buyerId) ==
    /\ reqs[r].pc = "idle"
    /\ LET q == [IdleReq EXCEPT !.op = "clearCart", !.buyerId = buyerId]
       IN  \E cart \in CartFindFirst(buyerId) :
               reqs' = [reqs EXCEPT ![r] =
                   IF cart = None THEN Respond(q, 404, None)
                   ELSE [q EXCEPT !.cart = cart, !.pc = "deleteItems"]]
    /\ UNCHANGED db

\* prisma.cartProduct.deleteMany({where: {cartId: cart.id}})
ClearCartDeleteItems(r) ==
    /\ reqs[r].op = "clearCart" /\ reqs[r].pc = "deleteItems"
    /\ LET deleted == LinesOfCart(Val(reqs[r].cart).id)
       IN  /\ cartProducts' = cartProducts \ deleted
           /\ reqs' = [reqs EXCEPT ![r] =
                  Respond(reqs[r], 200, Some([count |-> Cardinality(deleted)]))]
    /\ UNCHANGED <<users, products, nextUserId, nextProductId, carts, nextCartId, nextCartProductId>>

-----------------------------------------------------------------------------
(* getCart                                                                 *)

\* Number.prototype.toFixed(2) of num/den cents, den > 0: nearest cent, on a
\* tie the one further from 0 (amounts taken as exact decimals); a negative
\* number is formatted as "-" and its magnitude
ToFixed2(num, den) ==
    IF num >= 0 THEN (2 * num + den) \div (2 * den)
    ELSE -((2 * (-num) + den) \div (2 * den))

\* num/den lies exactly half way between two cents. The binary double nearest
\* to such a value lies just above or just below it, so toFixed(2) gives
\* either neighbour (0.005 gives "0.01", 1.005 gives "1.00").
HalfCent(num, den) == 2 * (num % den) = den

\* the products of these lines whose price * discount / 100 is a half cent
TieProductIds(lines) ==
    {l.productId : l \in {m \in lines :
        HalfCent(ProductById(m.productId).price * ProductById(m.productId).discount, 100)}}

\* the line total with the rounding left to the end
UnroundedDiscountView(l, up) ==
    LET product == ProductById(l.productId)
    IN  [productId |-> l.productId, name |-> product.name,
         category |-> product.category, price |-> product.price,
         discount |-> product.discount, quantity |-> l.quantity,
         totalCost |-> ToFixed2(product.price * (100 - product.discount) * l.quantity, 100)]

\* the map callback: discountAmount, priceAfterDiscount, totalCost, each
\* through toFixed(2); up holds the products whose half cent rounds up
CartItemView(l, up) ==
    LET product == ProductById(l.productId)
        amount == product.price * product.discount
        discountAmount == IF HalfCent(amount, 100)
                          THEN amount \div 100 + (IF l.productId \in up THEN 1 ELSE 0)
                          ELSE ToFixed2(amount, 100)
        priceAfterDiscount == ToFixed2(product.price - discountAmount, 1)
        totalCost == ToFixed2(priceAfterDiscount * l.quantity, 1)
    IN  [productId |-> l.productId, name |-> product.name,
         category |-> product.category, price |-> product.price,
         discount |-> product.discount, quantity |-> l.quantity,
         totalCost |-> totalCost]

RECURSIVE ExactOver(_, _)
ExactOver(items, ids) ==
    IF ids = {} THEN 0
    ELSE LET i == CHOOSE j \in ids : TRUE
         IN  items[i].price * (100 - items[i].discount) * items[i].quantity
                 + ExactOver(items, ids \ {i})

\* the total of the unrounded line values, rounded once
SumExactCost(items) == ToFixed2(ExactOver(items, DOMAIN items), 100)

RECURSIVE SumOver(_, _)
SumOver(items, ids) ==
    IF ids = {} THEN 0
    ELSE LET i == CHOOSE j \in ids : TRUE
         IN  items[i].totalCost + SumOver(items, ids \ {i})

\* products.reduce((total, item) => total + item.totalCost, 0); items is the
\* products array, indexed by the id of the line each element was mapped from
SumTotalCost(items) == SumOver(items, DOMAIN items)

\* a cart without lines treated like a missing cart
CartNotFoundOrEmpty(cart) == cart = None \/ LinesOfCart(Val(cart).id) = {}

\* if (!cart) return 404
CartNotFound(cart) == cart = None

\* prisma.cart.findFirst with the lines and their products, then the valuation
GetCart(r, buyerId) ==
    /\ reqs[r].pc = "idle"
    /\ LET q == [IdleReq EXCEPT !.op = "getCart", !.buyerId = buyerId]
       IN  \E cart \in CartFindFirst(buyerId) :
               IF CartNotFound(cart)
               THEN reqs' = [reqs EXCEPT ![r] = Respond(q, 404, None)]
               ELSE LET lines == LinesOfCart(Val(cart).id)
                    IN  \E up \in SUBSET TieProductIds(lines) :
                          LET items == [i \in {l.id : l \in lines} |->
                                  CartItemView(CHOOSE l \in lines : l.id = i, up)]
                          IN  reqs' = [reqs EXCEPT ![r] =
                                  Respond(q, 200,
                                      Some([buyerId |-> buyerId, products |-> items,
                                            totalValue |->
                                                ToFixed2(SumTotalCost(items), 1)]))]
    /\ UNCHANGED db

-----------------------------------------------------------------------------
(* The server: requests of authenticated buyers, in any interleaving       *)

\* the response has been sent; the request context is released
Finish(r) ==
    /\ reqs[r].pc = "done"
    /\ reqs' = [reqs EXCEPT ![r] = IdleReq]
    /\ UNCHANGED db

\* a missing productId, an existing product and an id no product has
ProductIdInputs == {None, Some(1), Some(3)}

\* omitted, negative, zero and positive
QuantityInputs == {None, Some(-1), Some(0), Some(1)}

AddToCartRequest(r) ==
    \E b \in BuyerIds, p \in ProductIdInputs, q \in QuantityInputs :
        AddToCartFindCart(r, b, p, q)

RemoveFromCartRequest(r) ==
    \E b \in BuyerIds, p \in ProductIdInputs \ {None} : RemoveFromCart(r, b, p)

ClearCartRequest(r) == \E b \in BuyerIds : ClearCartFindCart(r, b)

GetCartRequest(r) == \E b \in BuyerIds : GetCart(r, b)

Next ==
    \E r \in Reqs :
        \/ AddToCartRequest(r)
        \/ AddToCartCreateCart(r)
        \/ AddToCartFindItem(r)
        \/ AddToCartUpdateItem(r)
        \/ AddToCartCreateItem(r)
        \/ RemoveFromCartRequest(r)
        \/ ClearCartRequest(r)
        \/ ClearCartDeleteItems(r)
        \/ GetCartRequest(r)
        \/ Finish(r)

Spec == Init /\ [][Next]_vars

-----------------------------------------------------------------------------
(* Scenarios: every request context serves one addToCart call with a       *)
(* positive quantity for an existing product                               *)

AddToCartOnce(r) ==
    \E b \in BuyerIds, p \in ProductIds, q \in {Some(1), Some(2)} :
        AddToCartFindCart(r, b, Some(p), q)

NextOnce ==
    \E r \in Reqs :
        \/ AddToCartOnce(r)
        \/ AddToCartCreateCart(r)
        \/ AddToCartFindItem(r)
        \/ AddToCartUpdateItem(r)
        \/ AddToCartCreateItem(r)

\* concurrent calls on a store without carts
SpecOnce == Init /\ [][NextOnce]_vars

NoneRunning == \A r \in Reqs : reqs[r].pc \in {"idle", "done"}

NextSeq ==
    \E r \in Reqs :
        \/ NoneRunning /\ AddToCartOnce(r)
        \/ AddToCartCreateCart(r)
        \/ AddToCartFindItem(r)
        \/ AddToCartUpdateItem(r)
        \/ AddToCartCreateItem(r)


SeedCart == [id |-> 1, buyerId |-> 2]

SeedLine == [id |-> 1, cartId |-> 1, productId |-> 1, quantity |-> 1]

\* the store after buyer 2 has added product 1 once
InitWithLine ==
    /\ users = SeedUsers
    /\ products = SeedProducts
    /\ carts = {SeedCart}
    /\ cartProducts = {SeedLine}
    /\ nextCartId = 2
    /\ nextCartProductId = 2
    /\ nextUserId = 4
    /\ nextProductId = 3
    /\ reqs = [r \in Reqs |-> IdleReq]

\* concurrent calls on a store where the line already exists
SpecIncrement == InitWithLine /\ [][NextOnce]_vars

\* successive calls: a call starts when no other is in progress, on a store
\* without carts or on one where the buyer's cart holds another product
SpecSeq == (Init \/ InitWithLine) /\ [][NextSeq]_vars

-----------------------------------------------------------------------------
(* buyerRoutes: the router tries its routes in the order of registration   *)
(* and the first handler that answers ends the request                     *)

BuyerRoutes ==
    << [method |-> "GET", path |-> <<"search">>, handler |-> "searchProducts"],
       [method |-> "GET", path |-> <<"cart">>, handler |-> "getCart"],
       [method |-> "POST", path |-> <<"cart", "add">>, handler |-> "addToCart"],
       [method |-> "DELETE", path |-> <<"cart", ":productId">>,
        handler |-> "removeFromCart"],
       [method |-> "DELETE", path |-> <<"cart", "clear">>, handler |-> "clearCart"] >>

\* a route matches when every segment is equal or is a :parameter
RouteMatches(route, method, path) ==
    /\ route.method = method
    /\ Len(route.path) = Len(path)
    /\ \A i \in 1..Len(path) :
          route.path[i] = path[i] \/ route.path[i] = ":productId"

\* the handler of the first matching route, "" when no route matches
Dispatch(method, path) ==
    LET hits == {i \in 1..Len(BuyerRoutes) : RouteMatches(BuyerRoutes[i], method, path)}
    IN  IF hits = {} THEN ""
        ELSE BuyerRoutes[CHOOSE i \in hits : \A j \in hits : i <= j].handler

\* parseInt of a path segment: NaN (None) unless it starts with digits
ParseIntSegment(segment) ==
    CASE segment = "1" -> Some(1)
      [] segment = "2" -> Some(2)
      [] segment = "3" -> Some(3)
      [] OTHER -> None

\* removeFromCart with productId NaN: the Prisma client rejects NaN in the
\* where clause (500); read as a filter that no row matches it would be 404.
\* Nothing is deleted either way.
RemoveFromCartNaN(r, buyerId, segment) ==
    /\ reqs[r].pc = "idle"
    /\ \E status \in {500, 404} :
          reqs' = [reqs EXCEPT ![r] =
              Respond([IdleReq EXCEPT !.op = "removeFromCart", !.buyerId = buyerId,
                                      !.id = Some(segment)], status, None)]
    /\ UNCHANGED db

\* DELETE /api/cart/<segment> with a buyer's token
DeleteCartPath(r, buyerId, segment) ==
    LET handler == Dispatch("DELETE", <<"cart", segment>>)
    IN  IF handler = "removeFromCart"
        THEN IF ParseIntSegment(segment) = None
             THEN RemoveFromCartNaN(r, buyerId, segment)
             ELSE RemoveFromCart(r, buyerId, ParseIntSegment(segment))
        ELSE /\ handler = "clearCart"
             /\ ClearCartFindCart(r, buyerId)

DeleteCartRequest(r) ==
    \E b \in BuyerIds, segment \in {"clear", "1", "2", "3"} : DeleteCartPath(r, b, segment)

\* ClearCartDeleteItems is no step here: no DELETE path is dispatched to
\* clearCart, so no request ever waits at its second storage call
NextRoute ==
    \E r \in Reqs :
        \/ DeleteCartRequest(r)
        \/ AddToCartOnce(r)
        \/ AddToCartCreateCart(r)
        \/ AddToCartFindItem(r)
        \/ AddToCartUpdateItem(r)
        \/ AddToCartCreateItem(r)
        \/ Finish(r)

\* the buyer routes' DELETE paths, with calls that fill the carts
SpecRoute == InitWithLine /\ [][NextRoute]_vars

-----------------------------------------------------------------------------
(* Valuation: getCart over catalogs of any prices and discounts            *)

\* prices in cents: 100.00, 19.99, 0.33, 0.10
Prices == {10000, 1999, 33, 10}

\* whole percentages
Discounts == {0, 5, 10, 15, 100}

\* products 1 and 2 with any of the prices and discounts; buyer 2's cart
\* holds a line for product 1 and possibly one for product 2; buyer 3 has
\* an empty cart
InitValuation ==
    /\ users = SeedUsers
    /\ \E p1, p2 \in Prices, d1, d2 \in Discounts :
          products = {[p \in SeedProducts |->
                         [p EXCEPT !.price = IF p.id = 1 THEN p1 ELSE p2,
                                   !.discount = IF p.id = 1 THEN d1 ELSE d2]][s]
                      : s \in SeedProducts}
    /\ carts = {SeedCart, [id |-> 2, buyerId |-> 3]}
    /\ \E q1 \in 1..MaxQuantity, q2 \in 0..MaxQuantity :
          cartProducts =
              {[SeedLine EXCEPT !.quantity = q1]} \cup
              (IF q2 = 0 THEN {}
               ELSE {[id |-> 2, cartId |-> 1, productId |-> 2, quantity |-> q2]})
    /\ nextCartId = 3
    /\ nextCartProductId = 3
    /\ nextUserId = 4
    /\ nextProductId = 3
    /\ reqs = [r \in Reqs |-> IdleReq]

NextValuation == \E r \in Reqs : GetCartRequest(r) \/ Finish(r)

SpecValuation == InitValuation /\ [][NextValuation]_vars

-----------------------------------------------------------------------------
(* verifyToken: the middleware in front of the buyer and seller routes     *)

\* the token loginUser signs for a user: {id, role}, good for one hour
TokenOf(u) == Some([kind |-> "valid", id |-> u.id, role |-> u.role])

\* the same token after its hour
ExpiredTokenOf(u) == Some([kind |-> "expired", id |-> u.id, role |-> u.role])

\* a bearer string that is no token signed with the secret
InvalidToken == Some([kind |-> "invalid", id |-> 0, role |-> ""])

\* jwt.verify: err for a bad signature or an expired token
JwtVerifyErr(token) == Val(token).kind # "valid"

\* status 0 stands for next(); user is req.user when the token was decoded
VerifyToken(requiredRole, token) ==
    IF token = None THEN [status |-> 401, user |-> None]
    ELSE IF JwtVerifyErr(token) THEN [status |-> 403, user |-> None]
    ELSE LET decoded == [id |-> Val(token).id, role |-> Val(token).role]
         IN  IF requiredRole # "" /\ decoded.role # requiredRole
             THEN [status |-> 403, user |-> Some(decoded)]
             ELSE [status |-> 0, user |-> Some(decoded)]

\* the middleware answers itself: res.status(401 or 403), no next()
GuardAnswers(r, requiredRole, token) ==
    /\ reqs[r].pc = "idle"
    /\ LET v == VerifyToken(requiredRole, token)
       IN  /\ v.status # 0
           /\ reqs' = [reqs EXCEPT ![r] =
                  Respond([IdleReq EXCEPT !.op = "verifyToken", !.token = token,
                                          !.user = v.user], v.status, None)]
    /\ UNCHANGED db

\* the request the handler is called with after next(): req.user is set
Passed(requiredRole, token) ==
    [IdleReq EXCEPT !.token = token, !.user = VerifyToken(requiredRole, token).user,
                    !.next = TRUE]

-----------------------------------------------------------------------------
(* productController: addProduct, editProduct, deleteProduct               *)

MaxProductId == 3

\* a || b for numbers: 0, NaN and undefined give b
OrNumber(v, fallback) == IF Falsy(v) THEN fallback ELSE Val(v)

\* a || b for strings: '' and undefined give b
OrText(v, fallback) == IF v = None \/ Val(v) = "" THEN fallback ELSE Val(v)

\* the ownership test that lets every seller through
NotOwnerNever(product, sellerId) == FALSE

\* existingProduct.sellerId !== sellerId
NotOwner(product, sellerId) == product.sellerId # sellerId

\* prisma.product.findUnique({ where: { id } })
ProductFindUnique(id) ==
    IF id \in ProductIds THEN Some(ProductById(id)) ELSE None

\* prisma.product.create: the required columns must be given, discount has
\* the default 0, the seller must exist (foreign key); the sequence value is
\* drawn before the foreign key is checked
AddProduct(r, q, data) ==
    /\ reqs[r].pc = "idle"
    /\ nextProductId <= MaxProductId
    /\ LET sellerId == Val(q.user).id
           p == [q EXCEPT !.op = "addProduct", !.data = Some(data)]
       IN  IF data.name = None \/ data.category = None
                 \/ data.description = None \/ data.price = None
           THEN /\ reqs' = [reqs EXCEPT ![r] = Respond(p, 500, None)]
                /\ UNCHANGED db
           ELSE IF sellerId \notin UserIds
           THEN /\ reqs' = [reqs EXCEPT ![r] = Respond(p, 500, None)]
                /\ nextProductId' = nextProductId + 1
                /\ UNCHANGED <<users, products, nextUserId, carts, cartProducts,
                               nextCartId, nextCartProductId>>
           ELSE LET product ==
                        [id |-> nextProductId, name |-> Val(data.name),
                         category |-> Val(data.category),
                         description |-> Val(data.description),
                         price |-> Val(data.price),
                         discount |-> IF data.discount = None THEN 0
                                      ELSE Val(data.discount),
                         sellerId |-> sellerId]
                IN  /\ products' = products \cup {product}
                    /\ nextProductId' = nextProductId + 1
                    /\ reqs' = [reqs EXCEPT ![r] = Respond(p, 201, Some(product))]
                    /\ UNCHANGED <<users, nextUserId, carts, cartProducts,
                                   nextCartId, nextCartProductId>>

\* editProduct up to its update: findUnique, 404, the ownership test
EditProductFind(r, q, id, data) ==
    /\ reqs[r].pc = "idle"
    /\ LET p == [q EXCEPT !.op = "editProduct", !.id = Some(id), !.data = Some(data)]
           existingProduct == ProductFindUnique(id)
       IN  reqs' = [reqs EXCEPT ![r] =
               IF existingProduct = None THEN Respond(p, 404, None)
               ELSE IF NotOwner(Val(existingProduct), Val(q.user).id)
                    THEN Respond(p, 403, None)
                    ELSE [p EXCEPT !.pc = "update", !.existing = existingProduct]]
    /\ UNCHANGED db

\* the data of the update: each field is the supplied value || the value read
UpdateData(row, existingProduct, data) ==
    [row EXCEPT !.name = OrText(data.name, existingProduct.name),
                !.category = OrText(data.category, existingProduct.category),
                !.description = OrText(data.description, existingProduct.description),
                !.price = OrNumber(data.price, existingProduct.price),
                !.discount = OrNumber(data.discount, existingProduct.discount)]

\* prisma.product.update; it throws when the row is gone by now
EditProductUpdate(r) ==
    /\ reqs[r].op = "editProduct" /\ reqs[r].pc = "update"
    /\ LET id == Val(reqs[r].id)
       IN  IF id \notin ProductIds
           THEN /\ reqs' = [reqs EXCEPT ![r] = Respond(reqs[r], 500, None)]
                /\ UNCHANGED db
           ELSE LET product == UpdateData(ProductById(id), Val(reqs[r].existing),
                                          Val(reqs[r].data))
                IN  /\ products' = (products \ {ProductById(id)}) \cup {product}
                    /\ reqs' = [reqs EXCEPT ![r] = Respond(reqs[r], 200, Some(product))]
                    /\ UNCHANGED <<users, nextUserId, nextProductId, carts,
                                   cartProducts, nextCartId, nextCartProductId>>

\* deleteProduct up to its delete: findUnique, 404, the ownership test
DeleteProductFind(r, q, id) ==
    /\ reqs[r].pc = "idle"
    /\ LET p == [q EXCEPT !.op = "deleteProduct", !.id = Some(id)]
           product == ProductFindUnique(id)
       IN  reqs' = [reqs EXCEPT ![r] =
               IF product = None THEN Respond(p, 404, None)
               ELSE IF NotOwner(Val(product), Val(q.user).id)
                    THEN Respond(p, 403, None)
                    ELSE [p EXCEPT !.pc = "delete", !.existing = product]]
    /\ UNCHANGED db

\* a delete that takes no dependent row with it
NoCascade(pid) == {}

\* the rows that go with a product: its cart lines (onDelete: Cascade)
LinesOfProduct(pid) == {l \in cartProducts : l.productId = pid}

\* prisma.product.delete; it throws when the row is gone by now
DeleteProductDelete(r) ==
    /\ reqs[r].op = "deleteProduct" /\ reqs[r].pc = "delete"
    /\ LET id == Val(reqs[r].id)
       IN  IF id \notin ProductIds
           THEN /\ reqs' = [reqs EXCEPT ![r] = Respond(reqs[r], 500, None)]
                /\ UNCHANGED db
           ELSE /\ products' = products \ {ProductById(id)}
                /\ cartProducts' = cartProducts \ LinesOfProduct(id)
                /\ reqs' = [reqs EXCEPT ![r] =
                       Respond(reqs[r], 200, Some(ProductById(id)))]
                /\ UNCHANGED <<users, nextUserId, nextProductId, carts,
                               nextCartId, nextCartProductId>>

-----------------------------------------------------------------------------
(* The catalog: the seller routes behind verifyToken('seller')             *)

\* a second seller
OtherSeller ==
    [id |-> 4, name |-> "Sam", email |-> "sam@shop",
     password |-> Hash("pw4"), role |-> "seller"]

\* the users that have logged in
Accounts == SeedUsers \cup {OtherSeller}

\* no token, a bad one, an expired one, and the tokens of the accounts
Tokens ==
    {None, InvalidToken} \cup {TokenOf(u) : u \in Accounts}
        \cup {ExpiredTokenOf(u) : u \in {x \in Accounts : x.id = 1}}

NoData ==
    [name |-> None, category |-> None, description |-> None,
     price |-> None, discount |-> None]

AddBodies ==
    { [name |-> Some("Cap"), category |-> Some("Hats"), description |-> Some("d3"),
       price |-> Some(500), discount |-> None],
      [NoData EXCEPT !.name = Some("Cap")] }

EditBodies ==
    { NoData,
      [NoData EXCEPT !.price = Some(0)],
      [NoData EXCEPT !.price = Some(2500), !.discount = Some(0)],
      [NoData EXCEPT !.name = Some("Boot"), !.discount = Some(20)] }

\* an existing product and an id no product has
ProductIdParams == {1, 9}

AddProductRequest(r) ==
    \E token \in Tokens, data \in AddBodies :
        IF VerifyToken("seller", token).status # 0
        THEN GuardAnswers(r, "seller", token)
        ELSE AddProduct(r, Passed("seller", token), data)

EditProductRequest(r) ==
    \E token \in Tokens, id \in ProductIdParams, data \in EditBodies :
        IF VerifyToken("seller", token).status # 0
        THEN GuardAnswers(r, "seller", token)
        ELSE EditProductFind(r, Passed("seller", token), id, data)

DeleteProductRequest(r) ==
    \E token \in Tokens, id \in ProductIdParams :
        IF VerifyToken("seller", token).status # 0
        THEN GuardAnswers(r, "seller", token)
        ELSE DeleteProductFind(r, Passed("seller", token), id)

InitCatalog ==
    /\ users = SeedUsers \cup {OtherSeller}
    /\ products = SeedProducts
    /\ carts = {SeedCart}
    /\ cartProducts = {SeedLine}
    /\ nextCartId = 2
    /\ nextCartProductId = 2
    /\ nextUserId = 5
    /\ nextProductId = 3
    /\ reqs = [r \in Reqs |-> IdleReq]

NextCatalog ==
    \E r \in Reqs :
        \/ AddProductRequest(r)
        \/ EditProductRequest(r)
        \/ EditProductUpdate(r)
        \/ DeleteProductRequest(r)
        \/ DeleteProductDelete(r)
        \/ Finish(r)

SpecCatalog == InitCatalog /\ [][NextCatalog]_vars

-----------------------------------------------------------------------------
(* userController: getUserById, createUser, deleteUser                     *)

MaxUserId == 5

\* select: {id, name, email, role}
UserView(u) == [id |-> u.id, name |-> u.name, email |-> u.email, role |-> u.role]

\* prisma.user.findUnique by id with the select, 404 when there is none
GetUserById(r, id) ==
    /\ reqs[r].pc = "idle"
    /\ LET q == [IdleReq EXCEPT !.op = "getUserById", !.id = Some(id)]
           found == {u \in users : u.id = id}
       IN  reqs' = [reqs EXCEPT ![r] =
               IF found = {} THEN Respond(q, 404, None)
               ELSE Respond(q, 200, Some(UserView(CHOOSE u \in found : TRUE)))]
    /\ UNCHANGED db

\* prisma.user.findUnique({ where: { email } })
UserFindByEmail(email) ==
    IF \E u \in users : u.email = email
    THEN Some(CHOOSE u \in users : u.email = email)
    ELSE None

\* createUser up to bcrypt.hash: the role test, then the look-up by email
CreateUserFind(r, data) ==
    /\ reqs[r].pc = "idle"
    /\ LET q == [IdleReq EXCEPT !.op = "createUser", !.data = Some(data)]
       IN  reqs' = [reqs EXCEPT ![r] =
               IF data.role # "buyer" /\ data.role # "seller" THEN Respond(q, 400, None)
               ELSE IF UserFindByEmail(data.email) # None THEN Respond(q, 400, None)
               ELSE [q EXCEPT !.pc = "create"]]
    /\ UNCHANGED db

\* bcrypt.hash, then prisma.user.create: User.email is unique, a second row
\* with the email is refused by the database and the catch answers 500; the
\* id is drawn from the sequence before the index is checked
CreateUserCreate(r) ==
    /\ reqs[r].op = "createUser" /\ reqs[r].pc = "create"
    /\ nextUserId <= MaxUserId
    /\ LET data == Val(reqs[r].data)
           newUser == [id |-> nextUserId, name |-> data.name, email |-> data.email,
                       password |-> Hash(data.password), role |-> data.role]
       IN  IF UserFindByEmail(data.email) # None
           THEN /\ reqs' = [reqs EXCEPT ![r] = Respond(reqs[r], 500, None)]
                /\ UNCHANGED users
           ELSE /\ users' = users \cup {newUser}
                /\ reqs' = [reqs EXCEPT ![r] = Respond(reqs[r], 201, None)]
    /\ nextUserId' = nextUserId + 1
    /\ UNCHANGED <<products, nextProductId, carts, cartProducts, nextCartId,
                   nextCartProductId>>

\* the products that go with a seller (Product.seller onDelete: Cascade)
ProductsOfSeller(sellerId) == {p \in products : p.sellerId = sellerId}

\* a delete refused only for an id without a row
DeleteRefusedUnknownOnly(id) == id \notin UserIds

\* the delete throws: no row with the id, or a cart references the user
\* (Cart_buyerId_fkey is ON DELETE RESTRICT)
DeleteRefused(id) == id \notin UserIds \/ CartsOf(id) # {}

\* prisma.user.delete: it throws for an id without a row, and for a user who
\* has a cart (Cart.buyer is ON DELETE RESTRICT); the seller's products and
\* their cart lines go with the user
DeleteUser(r, id) ==
    /\ reqs[r].pc = "idle"
    /\ LET q == [IdleReq EXCEPT !.op = "deleteUser", !.id = Some(id)]
       IN  IF DeleteRefused(id)
           THEN /\ reqs' = [reqs EXCEPT ![r] = Respond(q, 500, None)]
                /\ UNCHANGED db
           ELSE LET deletedUser == CHOOSE u \in users : u.id = id
                    gone == ProductsOfSeller(id)
                IN  /\ users' = users \ {deletedUser}
                    /\ products' = products \ gone
                    /\ cartProducts' = cartProducts \
                           UNION {LinesOfProduct(p.id) : p \in gone}
                    /\ reqs' = [reqs EXCEPT ![r] = Respond(q, 200, Some(deletedUser))]
                    /\ UNCHANGED <<nextUserId, nextProductId, carts, nextCartId,
                                   nextCartProductId>>

-----------------------------------------------------------------------------
(* Sign-up: concurrent createUser calls                                    *)

\* a taken email and two free ones; a role that is none of the two
SignUpBodies ==
    { [name |-> "New", email |-> e, password |-> "pw", role |-> role] :
          e \in {"ann@shop", "new@shop", "zed@shop"},
          role \in {"buyer", "seller", "admin"} }

CreateUserRequest(r) == \E data \in SignUpBodies : CreateUserFind(r, data)

NextUsers ==
    \E r \in Reqs :
        \/ CreateUserRequest(r)
        \/ CreateUserCreate(r)
        \/ Finish(r)

SpecUsers == Init /\ [][NextUsers]_vars

-----------------------------------------------------------------------------
(* The whole store: users, products and carts deleted and filled together  *)

\* the ids of the accounts and an id no user has
UserIdParams == {1, 2, 3, 4, 9}

\* the tokens of the two sellers, which verifyToken('seller') lets pass
SellerTokens == {TokenOf(u) : u \in {x \in Accounts : x.role = "seller"}}

GetUserByIdRequest(r) == \E id \in UserIdParams : GetUserById(r, id)

DeleteUserRequest(r) == \E id \in UserIdParams : DeleteUser(r, id)

SellerAddRequest(r) ==
    \E token \in SellerTokens :
        AddProduct(r, Passed("seller", token),
                   [NoData EXCEPT !.name = Some("Cap"), !.category = Some("Hats"),
                                  !.description = Some("d3"), !.price = Some(500)])

SellerEditRequest(r) ==
    \E token \in SellerTokens, id \in ProductIdParams :
        EditProductFind(r, Passed("seller", token), id,
                        [NoData EXCEPT !.price = Some(2500)])

SellerDeleteRequest(r) ==
    \E token \in SellerTokens, id \in ProductIdParams :
        DeleteProductFind(r, Passed("seller", token), id)

\* product 2 is seller 4's; buyer 2 has product 1 in the cart
InitStore ==
    /\ users = Accounts
    /\ products = {[p EXCEPT !.sellerId = IF p.id = 2 THEN 4 ELSE 1] : p \in SeedProducts}
    /\ carts = {SeedCart}
    /\ cartProducts = {SeedLine}
    /\ nextCartId = 2
    /\ nextCartProductId = 2
    /\ nextUserId = 5
    /\ nextProductId = 3
    /\ reqs = [r \in Reqs |-> IdleReq]

\* deletions of users and products against additions of products and lines
NextStore ==
    \E r \in Reqs :
        \/ DeleteUserRequest(r)
        \/ SellerAddRequest(r)
        \/ SellerDeleteRequest(r)
        \/ DeleteProductDelete(r)
        \/ AddToCartOnce(r)
        \/ AddToCartCreateCart(r)
        \/ AddToCartFindItem(r)
        \/ AddToCartUpdateItem(r)
        \/ AddToCartCreateItem(r)
        \/ Finish(r)

SpecStore == InitStore /\ [][NextStore]_vars

\* every operation that looks a row up, with the deletions that remove rows
NextLookup ==
    \E r \in Reqs :
        \/ GetUserByIdRequest(r)
        \/ DeleteUserRequest(r)
        \/ SellerEditRequest(r)
        \/ EditProductUpdate(r)
        \/ SellerDeleteRequest(r)
        \/ DeleteProductDelete(r)
        \/ RemoveFromCartRequest(r)
        \/ ClearCartRequest(r)
        \/ ClearCartDeleteItems(r)
        \/ GetCartRequest(r)
        \/ Finish(r)

SpecLookup == InitStore /\ [][NextLookup]_vars

-----------------------------------------------------------------------------
(* Pricing: products added and edited with any numbers, and valued         *)

\* a negative price, a discount above 100, and a price with a discount
PricingBodies ==
    { [NoData EXCEPT !.price = Some(-500)],
      [NoData EXCEPT !.discount = Some(150)],
      [NoData EXCEPT !.price = Some(2500), !.discount = Some(20)] }

PricingAddRequest(r) ==
    \E token \in SellerTokens, data \in PricingBodies :
        AddProduct(r, Passed("seller", token),
                   [data EXCEPT !.name = Some("Cap"), !.category = Some("Hats"),
                                !.description = Some("d3"),
                                !.price = IF data.price = None THEN Some(500)
                                          ELSE data.price])

PricingEditRequest(r) ==
    \E token \in SellerTokens, data \in PricingBodies :
        EditProductFind(r, Passed("seller", token), 1, data)

NextPricing ==
    \E r \in Reqs :
        \/ PricingAddRequest(r)
        \/ PricingEditRequest(r)
        \/ EditProductUpdate(r)
        \/ GetCartRequest(r)
        \/ Finish(r)

SpecPricing == InitCatalog /\ [][NextPricing]_vars

-----------------------------------------------------------------------------
(* Scenario: every addToCart call is one that fails, for a missing         *)
(* productId or for an id no product has                                   *)

FailingAddRequest(r) ==
    \E b \in BuyerIds, p \in {None, Some(3)}, q \in QuantityInputs :
        AddToCartFindCart(r, b, p, q)

\* AddToCartUpdateItem is no step here: no line is ever stored to be found
NextFailingAdds ==
    \E r \in Reqs :
        \/ FailingAddRequest(r)
        \/ AddToCartCreateCart(r)
        \/ AddToCartFindItem(r)
        \/ AddToCartCreateItem(r)
        \/ GetCartRequest(r)
        \/ Finish(r)

SpecFailingAdds == Init /\ [][NextFailingAdds]_vars

-----------------------------------------------------------------------------
(* userController: getAllUsers, loginUser; the user routes together        *)

\* prisma.user.findMany with the select
GetAllUsers(r) ==
    /\ reqs[r].pc = "idle"
    /\ reqs' = [reqs EXCEPT ![r] =
           Respond([IdleReq EXCEPT !.op = "getAllUsers"], 200,
                   Some({UserView(u) : u \in users}))]
    /\ UNCHANGED db

\* loginUser up to bcrypt.compare: the look-up by email, 400 when there is none
LoginUserFind(r, data) ==
    /\ reqs[r].pc = "idle"
    /\ LET q == [IdleReq EXCEPT !.op = "loginUser", !.data = Some(data)]
           user == UserFindByEmail(data.email)
       IN  reqs' = [reqs EXCEPT ![r] =
               IF user = None THEN Respond(q, 400, None)
               ELSE [q EXCEPT !.pc = "compare", !.existing = user]]
    /\ UNCHANGED db

\* bcrypt.compare(password, user.password)
IsMatch(password, hash) == Hash(password) = hash

\* bcrypt.compare, then jwt.sign and the answer with the token and the user
LoginUserCompare(r) ==
    /\ reqs[r].op = "loginUser" /\ reqs[r].pc = "compare"
    /\ LET user == Val(reqs[r].existing)
       IN  reqs' = [reqs EXCEPT ![r] =
               IF ~IsMatch(Val(reqs[r].data).password, user.password)
               THEN Respond(reqs[r], 400, None)
               ELSE Respond(reqs[r], 200,
                            Some([token |-> TokenOf(user), user |-> UserView(user)]))]
    /\ UNCHANGED db

\* a stored email with the right and a wrong password, and an unknown email
LoginBodies ==
    { [email |-> e, password |-> pw] :
          e \in {"ann@shop", "nobody@shop"}, pw \in {"pw2", "bad"} }

LoginUserRequest(r) == \E data \in LoginBodies : LoginUserFind(r, data)

\* one new email, one taken, with a role
AccountBodies ==
    { [name |-> "New", email |-> e, password |-> "pw", role |-> "buyer"] :
          e \in {"ann@shop", "new@shop"} }

AccountCreateRequest(r) == \E data \in AccountBodies : CreateUserFind(r, data)

NextAccounts ==
    \E r \in Reqs :
        \/ GetAllUsers(r)
        \/ GetUserByIdRequest(r)
        \/ AccountCreateRequest(r)
        \/ CreateUserCreate(r)
        \/ LoginUserRequest(r)
        \/ LoginUserCompare(r)
        \/ DeleteUserRequest(r)
        \/ Finish(r)

SpecAccounts == Init /\ [][NextAccounts]_vars

-----------------------------------------------------------------------------
(* Properties                                                              *)

Done(r) == reqs[r].pc = "done"

DoneAdd(r) == Done(r) /\ reqs[r].op = "addToCart"

LinesFor(buyerId, productId) ==
    {l \in LinesOfBuyer(buyerId) : l.productId = productId}

\* no request context other than r1 and r2 holds a call of this buyer for this product
OnlyCallers(r1, r2, buyerId, productId) ==
    \A r3 \in Reqs \ {r1, r2} :
        \/ reqs[r3].pc = "idle"
        \/ reqs[r3].buyerId # buyerId
        \/ reqs[r3].productId # productId

\* C1: two concurrent addToCart calls of a buyer without a cart, for the same
\* product and each with quantity 1, end with exactly one cart of that buyer
\* and exactly one line for the product, with quantity 2.
C1_ConcurrentFirstAdds ==
    \A r1, r2 \in Reqs :
        ( /\ r1 # r2 /\ DoneAdd(r1) /\ DoneAdd(r2)
          /\ reqs[r1].buyerId = reqs[r2].buyerId
          /\ reqs[r1].productId = reqs[r2].productId
          /\ reqs[r1].quantity = Some(1) /\ reqs[r2].quantity = Some(1)
          /\ \A r3 \in Reqs \ {r1, r2} : reqs[r3].buyerId # reqs[r1].buyerId )
        => /\ Cardinality(CartsOf(reqs[r1].buyerId)) = 1
           /\ \E l \in cartProducts :
                 /\ LinesFor(reqs[r1].buyerId, Val(reqs[r1].productId)) = {l}
                 /\ l.quantity = 2

\* C2: in every reachable state each buyer owns at most one Cart row.
C2_OneCartPerBuyer ==
    \A u \in users : Cardinality(CartsOf(u.id)) <= 1

\* C3: from a cart without a line for product p, two successive successful
\* addToCart calls for p with quantities q1 then q2 leave exactly one line for
\* p, with quantity q1 + q2, and the second call returns that line.
C3_SuccessiveAddsMerge ==
    \A r1, r2 \in Reqs :
        ( /\ r1 # r2 /\ DoneAdd(r1) /\ DoneAdd(r2)
          /\ reqs[r1].buyerId = reqs[r2].buyerId
          /\ reqs[r1].productId = reqs[r2].productId
          /\ reqs[r1].status = 201
          /\ OnlyCallers(r1, r2, reqs[r1].buyerId, reqs[r1].productId) )
        => /\ reqs[r2].status = 200
           /\ LinesFor(reqs[r1].buyerId, Val(reqs[r1].productId)) = {Val(reqs[r2].body)}
           /\ Val(reqs[r2].body).quantity = Val(reqs[r1].quantity) + Val(reqs[r2].quantity)

C3_Witness ==
    \E r1, r2 \in Reqs :
        /\ r1 # r2 /\ DoneAdd(r1) /\ DoneAdd(r2)
        /\ reqs[r1].buyerId = reqs[r2].buyerId
        /\ reqs[r1].productId = reqs[r2].productId
        /\ reqs[r1].status = 201 /\ reqs[r1].quantity = Some(1)
        /\ reqs[r2].status = 200 /\ reqs[r2].quantity = Some(2)
        /\ \E l \in cartProducts : l.quantity = 3 /\ reqs[r2].body = Some(l)

\* C4: in every reachable state no two lines of the same cart reference the
\* same product.
C4_NoDuplicateLines ==
    \A l1, l2 \in cartProducts :
        (l1.cartId = l2.cartId /\ l1.productId = l2.productId) => l1 = l2

\* a second create for the line's (cart, product) pair was turned down
C4_Witness ==
    /\ nextCartProductId = 2
    /\ \E r \in Reqs, l \in cartProducts :
          /\ DoneAdd(r) /\ reqs[r].status = 500
          /\ reqs[r].quantity = Some(1)
          /\ reqs[r].productId = Some(l.productId)
          /\ CartsOf(reqs[r].buyerId) = {c \in carts : c.id = l.cartId}

\* C5: with a line of quantity q stored, two concurrent addToCart calls for
\* its product with quantities a and b that both report success leave the line
\* with quantity q + a + b.
C5_NoLostIncrement ==
    \A r1, r2 \in Reqs :
        ( /\ r1 # r2 /\ DoneAdd(r1) /\ DoneAdd(r2)
          /\ reqs[r1].buyerId = SeedCart.buyerId /\ reqs[r2].buyerId = SeedCart.buyerId
          /\ reqs[r1].productId = Some(SeedLine.productId)
          /\ reqs[r2].productId = Some(SeedLine.productId)
          /\ reqs[r1].status = 200 /\ reqs[r2].status = 200
          /\ OnlyCallers(r1, r2, SeedCart.buyerId, Some(SeedLine.productId)) )
        => \E l \in cartProducts :
              /\ LinesFor(SeedCart.buyerId, SeedLine.productId) = {l}
              /\ l.quantity = SeedLine.quantity + Val(reqs[r1].quantity)
                                                + Val(reqs[r2].quantity)

GetCartStep(r) == reqs[r].pc = "idle" /\ reqs'[r].op = "getCart"

\* C6: getCart answers NotFound exactly when the buyer has no Cart row; a Cart
\* row, once stored, stays stored through every addToCart, removeFromCart and
\* clearCart step, so NotFound never comes back; and for a buyer whose cart
\* has no lines getCart answers an empty line list with total 0.
C6_CartPersists ==
    [][ /\ carts \subseteq carts'
        /\ \A r \in Reqs :
              GetCartStep(r) =>
                 LET b == reqs'[r].buyerId
                 IN  /\ reqs'[r].status = IF CartsOf(b) = {} THEN 404 ELSE 200
                     /\ (CartsOf(b) # {} /\ LinesOfBuyer(b) = {}) =>
                           /\ DOMAIN Val(reqs'[r].body).products = {}
                           /\ Val(reqs'[r].body).totalValue = 0 ]_vars

\* a cart emptied by removeFromCart or clearCart is still found by getCart
C6_Witness ==
    /\ nextCartProductId > 1
    /\ \E r \in Reqs :
          /\ Done(r) /\ reqs[r].op = "getCart" /\ reqs[r].status = 200
          /\ DOMAIN Val(reqs[r].body).products = {}
          /\ LinesOfBuyer(reqs[r].buyerId) = {}

\* C7: addToCart with a productId that references no existing product fails
\* with InvalidInput (400).
C7_UnknownProductIs400 ==
    \A r \in Reqs :
        ( /\ DoneAdd(r)
          /\ reqs[r].productId # None
          /\ ParseInt(reqs[r].productId) \notin ProductIds )
        => reqs[r].status = 400

InvalidAddCall(q) ==
    /\ q.op = "addToCart"
    /\ \/ q.productId = None
       \/ (q.quantity # None /\ Val(q.quantity) <= 0)

\* C8: an addToCart call with a missing productId or with a zero or negative
\* quantity answers 400, and no step of it changes the store: no Cart row and
\* no CartLine is created or modified.
C8_InvalidAddChangesNothing ==
    [][ \A r \in Reqs :
           (reqs'[r] # reqs[r] /\ InvalidAddCall(reqs'[r])) =>
              /\ reqs'[r].pc = "done"
              /\ reqs'[r].status = 400
              /\ db' = db ]_vars

C8_Witness ==
    \E r1, r2 \in Reqs :
        /\ DoneAdd(r1) /\ reqs[r1].status = 400
        /\ reqs[r1].productId = Some(1) /\ reqs[r1].quantity = Some(0)
        /\ DoneAdd(r2) /\ reqs[r2].status = 400 /\ reqs[r2].productId = None
        /\ carts = {}

\* C9: in every reachable state every CartLine has an integer quantity of at
\* least 1, whatever quantities (positive, zero, negative, omitted) the
\* addToCart calls carried.
C9_QuantityPositive ==
    \A l \in cartProducts : l.quantity \in Nat /\ l.quantity >= 1

\* a call without quantity has stored a line while a call with a negative
\* quantity was answered
C9_Witness ==
    \E r1, r2 \in Reqs :
        /\ DoneAdd(r1) /\ reqs[r1].quantity = None /\ reqs[r1].status = 201
        /\ reqs[r1].body # None /\ Val(reqs[r1].body) \in cartProducts
        /\ DoneAdd(r2) /\ reqs[r2].quantity = Some(-1)

RemoveStep(r) == reqs[r].pc = "idle" /\ reqs'[r].op = "removeFromCart"

\* C10: removeFromCart(buyer, p) deletes the buyer's line for p and no other
\* line, with count 1; when the buyer has no line for p (also without a cart)
\* it answers a zero-count NotFound (404) and changes nothing.
C10_RemoveExactlyOne ==
    [][ \A r \in Reqs :
           RemoveStep(r) =>
              LET mine == LinesFor(reqs'[r].buyerId, ParseInt(reqs'[r].productId))
              IN  IF mine = {}
                  THEN reqs'[r].status = 404 /\ db' = db
                  ELSE /\ reqs'[r].status = 200
                       /\ Val(reqs'[r].body).count = 1
                       /\ \E l \in mine : cartProducts' = cartProducts \ {l}
                       /\ carts' = carts ]_vars

ClearFindStep(r) == reqs[r].pc = "idle" /\ reqs'[r].op = "clearCart"

ClearDeleteStep(r) ==
    reqs[r].op = "clearCart" /\ reqs[r].pc = "deleteItems" /\ reqs'[r].pc = "done"

\* C11: clearCart answers NotFound (404) only when the buyer has no Cart row;
\* otherwise it deletes every CartLine of the buyer's cart and answers 200
\* with the number of lines removed (0 for a cart without lines), and after it
\* the buyer has no line left, so getCart returns an empty line list.
C11_ClearRemovesAll ==
    [][ \A r \in Reqs :
           /\ ClearFindStep(r) =>
                 /\ (reqs'[r].status = 404) <=> (CartsOf(reqs'[r].buyerId) = {})
                 /\ db' = db
           /\ ClearDeleteStep(r) =>
                 LET mine == LinesOfBuyer(reqs[r].buyerId)
                 IN  /\ reqs'[r].status = 200
                     /\ Val(reqs'[r].body).count = Cardinality(mine)
                     /\ cartProducts' = cartProducts \ mine
                     /\ carts' = carts ]_vars

\* C12: DELETE /cart/clear with a valid buyer token is dispatched to clearCart:
\* for a buyer with a cart it is answered 200 with the count of lines removed,
\* and it is not handled as removeFromCart for a product id 'clear'.
C12_ClearPathClears ==
    \A r \in Reqs :
        ( /\ reqs[r].pc = "done"
          /\ reqs[r].id = Some("clear")
          /\ CartsOf(reqs[r].buyerId) # {} )
        => /\ reqs[r].op = "clearCart"
           /\ reqs[r].status = 200
           /\ reqs[r].body # None

\* a getCart call answered 200 with the valued lines
CartViewOf(r) == reqs[r].op = "getCart" /\ reqs[r].pc = "done" /\ reqs[r].status = 200

\* C13 as stated: every line total returned by getCart is
\* round2((price - price*discount/100) * quantity), rounded only at the end.
C13_FinalRoundingOnly ==
    \A r \in Reqs : CartViewOf(r) =>
        \A i \in DOMAIN Val(reqs[r].body).products :
            LET item == Val(reqs[r].body).products[i]
                exact == item.price * (100 - item.discount) * item.quantity
            IN  item.totalCost = (exact + 50) \div 100

\* C13 amended: every line total returned by getCart is (price - d) * quantity
\* where d is price*discount/100 rounded to the nearest cent before it is
\* subtracted (an exact half cent goes to either neighbouring cent); in
\* particular price 100.00, discount 10, quantity 2 gives 180.00.
C13_RoundedDiscount ==
    \A r \in Reqs : CartViewOf(r) =>
        \A i \in DOMAIN Val(reqs[r].body).products :
            LET item == Val(reqs[r].body).products[i]
                amount == item.price * item.discount
            IN  /\ \E d \in {amount \div 100, amount \div 100 + 1} :
                      /\ 100 * d - amount <= 50
                      /\ amount - 100 * d <= 50
                      /\ item.totalCost = (item.price - d) * item.quantity
                /\ (item.price = 10000 /\ item.discount = 10 /\ item.quantity = 2)
                      => item.totalCost = 18000

\* one response values 100.00 at 10% twice as 180.00 and 0.33 at 10% twice as
\* 0.60, where rounding at the end alone gives 0.59
C13_Witness ==
    \E r \in Reqs :
        /\ CartViewOf(r)
        /\ \E i, j \in DOMAIN Val(reqs[r].body).products :
              LET a == Val(reqs[r].body).products[i]
                  b == Val(reqs[r].body).products[j]
              IN  /\ a.price = 10000 /\ a.discount = 10 /\ a.quantity = 2
                  /\ a.totalCost = 18000
                  /\ b.price = 33 /\ b.discount = 10 /\ b.quantity = 2
                  /\ b.totalCost = 60

RECURSIVE TotalUpTo(_, _)
\* the line totals of a response added in the order of the line ids
TotalUpTo(items, n) ==
    IF n = 0 THEN 0
    ELSE (IF n \in DOMAIN items THEN items[n].totalCost ELSE 0) + TotalUpTo(items, n - 1)

\* C14: the cart total of a getCart response is the sum of the rounded line
\* totals of that same response, and 0 for a cart without lines.
C14_TotalIsSumOfLines ==
    \A r \in Reqs : CartViewOf(r) =>
        LET view == Val(reqs[r].body)
        IN  /\ view.totalValue = TotalUpTo(view.products, nextCartProductId - 1)
            /\ DOMAIN view.products = {} => view.totalValue = 0

\* two lines of 0.33 at 10%: 0.30 + 0.30 = 0.60 is returned, the unrounded
\* values add up to 0.594
C14_Witness ==
    \E r \in Reqs :
        /\ CartViewOf(r)
        /\ LET view == Val(reqs[r].body)
           IN  /\ DOMAIN view.products = {1, 2}
               /\ \A i \in {1, 2} :
                     /\ view.products[i].price = 33
                     /\ view.products[i].discount = 10
                     /\ view.products[i].quantity = 1
               /\ view.totalValue = 60

\* request r is taken up in this step by a seller route handler
CatalogCall(r, op) == reqs[r].pc = "idle" /\ reqs'[r].op = op

\* C15: editProduct or deleteProduct by an authenticated seller on an existing
\* product of another seller is answered 403 at once and changes neither the
\* products nor the cart lines; no request of a non-owner ever stands before
\* its write, and every change of a product row is made by a request of the
\* product's seller.
C15_NonOwnerForbidden ==
    [][ /\ \A r \in Reqs :
              ( /\ CatalogCall(r, "editProduct") \/ CatalogCall(r, "deleteProduct")
                /\ Val(reqs'[r].id) \in ProductIds
                /\ ProductById(Val(reqs'[r].id)).sellerId # Val(reqs'[r].user).id )
              => /\ reqs'[r].pc = "done"
                 /\ reqs'[r].status = 403
                 /\ products' = products
                 /\ cartProducts' = cartProducts
        /\ \A p \in products \ products' :
              \E r \in Reqs :
                  /\ reqs[r].pc \in {"update", "delete"}
                  /\ reqs'[r].pc = "done"
                  /\ Val(reqs[r].id) = p.id
                  /\ Val(reqs[r].user).id = p.sellerId ]_vars

\* seller 4 has been refused an edit and a delete of seller 1's product 1,
\* which a buyer still has in the cart
C15_Witness ==
    /\ \E r \in Reqs :
          /\ reqs[r].op = "editProduct" /\ reqs[r].pc = "done"
          /\ reqs[r].status = 403 /\ Val(reqs[r].user).id = 4
          /\ reqs[r].id = Some(1) /\ Val(reqs[r].data).price = Some(2500)
    /\ \E r \in Reqs :
          /\ reqs[r].op = "deleteProduct" /\ reqs[r].pc = "done"
          /\ reqs[r].status = 403 /\ Val(reqs[r].user).id = 4
          /\ reqs[r].id = Some(1)
    /\ SeedProducts \subseteq products
    /\ SeedLine \in cartProducts

\* C16: a request with a missing, invalid or expired token is answered 401 and
\* one with a valid token of another role 403, in both cases without the
\* handler being invoked; the handler is invoked only for a valid token with
\* the required role, with the token's id and role.
C16_GuardStatuses ==
    \A r \in Reqs : reqs[r].pc # "idle" /\ reqs[r].op \in
                        {"verifyToken", "addProduct", "editProduct", "deleteProduct"} =>
        LET token == reqs[r].token
            usable == token # None /\ Val(token).kind = "valid"
        IN  /\ ~usable => /\ reqs[r].op = "verifyToken"
                          /\ reqs[r].status = 401
                          /\ ~reqs[r].next
            /\ (usable /\ Val(token).role # "seller") =>
                          /\ reqs[r].op = "verifyToken"
                          /\ reqs[r].status = 403
                          /\ ~reqs[r].next
            /\ reqs[r].next =>
                          /\ usable
                          /\ Val(token).role = "seller"
                          /\ reqs[r].user =
                                Some([id |-> Val(token).id, role |-> Val(token).role])

\* an update of editProduct that was answered 200
EditDone(r) ==
    /\ reqs[r].op = "editProduct" /\ reqs[r].pc = "update"
    /\ reqs'[r].pc = "done" /\ reqs'[r].status = 200

\* C20: a successful editProduct by the owner sets every supplied field to the
\* supplied value, a price or discount of 0 included, keeps the stored value
\* of every omitted field, and leaves sellerId as it is.
C20_EditSetsSupplied ==
    [][ \A r \in Reqs : EditDone(r) =>
          LET id == Val(reqs[r].id)
              data == Val(reqs[r].data)
              before == ProductById(id)
              after == CHOOSE p \in products' : p.id = id
          IN  /\ after.name = IF data.name = None THEN before.name ELSE Val(data.name)
              /\ after.category =
                    IF data.category = None THEN before.category ELSE Val(data.category)
              /\ after.description =
                    IF data.description = None THEN before.description
                    ELSE Val(data.description)
              /\ after.price = IF data.price = None THEN before.price ELSE Val(data.price)
              /\ after.discount =
                    IF data.discount = None THEN before.discount ELSE Val(data.discount)
              /\ after.sellerId = before.sellerId ]_vars

\* every line has its cart and its product, every product has its seller
ReferencesHold ==
    /\ \A l \in cartProducts : l.cartId \in CartIds /\ l.productId \in ProductIds
    /\ \A p \in products : p.sellerId \in UserIds

\* a deleteUser call answered 200 in this step
UserDeleted(r) ==
    reqs[r].pc = "idle" /\ reqs'[r].op = "deleteUser" /\ reqs'[r].status = 200

\* a deleteProduct call that deletes in this step
ProductDeleted(r) ==
    /\ reqs[r].op = "deleteProduct" /\ reqs[r].pc = "delete"
    /\ reqs'[r].status = 200

\* C17: in every reachable state every cart line references an existing cart
\* and an existing product and every product an existing seller; deleting a
\* seller deletes that seller's products, and deleting a product, directly or
\* with its seller, deletes the lines that reference it in every cart.
C17_ReferentialIntegrity ==
    /\ []ReferencesHold
    /\ [][ \A r \in Reqs :
             /\ UserDeleted(r) =>
                   LET id == Val(reqs'[r].id)
                   IN  /\ id \notin {u.id : u \in users'}
                       /\ \A p \in products' : p.sellerId # id
                       /\ products' \subseteq products
                       /\ \A p \in products \ products' :
                             /\ p.sellerId = id
                             /\ \A l \in cartProducts' : l.productId # p.id
             /\ ProductDeleted(r) =>
                   LET id == Val(reqs[r].id)
                   IN  /\ id \notin {p.id : p \in products'}
                       /\ \A l \in cartProducts' : l.productId # id ]_vars

\* seller 1 has been deleted: product 1 went with the seller and buyer 2's line
\* for it went with the product, while the buyer's cart is still there
C17_Witness ==
    /\ \E r \in Reqs :
          /\ reqs[r].op = "deleteUser" /\ reqs[r].pc = "done"
          /\ reqs[r].status = 200 /\ reqs[r].id = Some(1)
    /\ 1 \notin UserIds
    /\ 1 \notin ProductIds
    /\ SeedCart \in carts
    /\ LinesOfCart(1) = {}

\* no two users have the same email
EmailsUnique == \A u, v \in users : u.email = v.email => u = v

\* a createUser call answered in this step
CreateUserAnswered(r) == reqs'[r].op = "createUser" /\ reqs[r].pc # "done" /\ reqs'[r].pc = "done"

\* C18: no two users ever share an email, and a createUser call whose email
\* belongs to a stored user when the call is answered, stored before the call
\* or by a concurrent call in between, is answered 400.
C18_DuplicateEmailIs400 ==
    /\ []EmailsUnique
    /\ [][ \A r \in Reqs :
             ( /\ CreateUserAnswered(r)
               /\ Val(reqs'[r].data).role \in {"buyer", "seller"}
               /\ \E u \in users : u.email = Val(reqs'[r].data).email )
             => reqs'[r].status = 400 ]_vars

\* a call is taken up in this step for a target that is not there
MissingTarget(r) ==
    /\ reqs[r].pc = "idle"
    /\ \/ /\ reqs'[r].op \in {"getUserById", "deleteUser"}
          /\ Val(reqs'[r].id) \notin UserIds
       \/ /\ reqs'[r].op \in {"editProduct", "deleteProduct"}
          /\ Val(reqs'[r].id) \notin ProductIds
       \/ /\ reqs'[r].op \in {"getCart", "clearCart"}
          /\ CartsOf(reqs'[r].buyerId) = {}
       \/ /\ reqs'[r].op = "removeFromCart"
          /\ \A l \in LinesOfBuyer(reqs'[r].buyerId) :
                Some(l.productId) # reqs'[r].productId

\* C19: getUserById and deleteUser for an unknown user id, editProduct and
\* deleteProduct for an unknown product id, getCart and clearCart for a buyer
\* without a cart and removeFromCart for an absent line are answered 404.
C19_MissingIs404 ==
    [][ \A r \in Reqs : MissingTarget(r) =>
            reqs'[r].pc = "done" /\ reqs'[r].status = 404 ]_vars

\* C21: every stored product has price >= 0 and 0 <= discount <= 100 whatever
\* the addProduct and editProduct requests carried, and no line total or cart
\* total returned by getCart is negative.
C21_PricesInRange ==
    /\ \A p \in products : p.price >= 0 /\ p.discount >= 0 /\ p.discount <= 100
    /\ \A r \in Reqs : CartViewOf(r) =>
          /\ Val(reqs[r].body).totalValue >= 0
          /\ \A i \in DOMAIN Val(reqs[r].body).products :
                Val(reqs[r].body).products[i].totalCost >= 0

\* the buyer whose request r moves in this step
BuyerOfStep(r) == IF reqs[r].pc = "idle" THEN reqs'[r].buyerId ELSE reqs[r].buyerId

\* C22: a step of a cart request of buyer A, in any interleaving with the
\* requests of the other buyers, neither creates, changes nor deletes a Cart
\* or a CartLine of another buyer, and getCart returns only lines of the
\* caller's own carts.
C22_NoCrossBuyerEffect ==
    [][ \A r \in Reqs : reqs'[r] # reqs[r] =>
          LET a == BuyerOfStep(r)
          IN  /\ {c \in carts' : c.buyerId # a} = {c \in carts : c.buyerId # a}
              /\ {l \in cartProducts' :
                     \E c \in carts' : c.id = l.cartId /\ c.buyerId # a}
                 = {l \in cartProducts :
                     \E c \in carts : c.id = l.cartId /\ c.buyerId # a}
              /\ (GetCartStep(r) /\ reqs'[r].status = 200) =>
                    \A i \in DOMAIN Val(reqs'[r].body).products :
                        \E l \in LinesOfBuyer(a) :
                            /\ l.id = i
                            /\ Val(reqs'[r].body).products[i].productId = l.productId
                            /\ Val(reqs'[r].body).products[i].quantity = l.quantity
    ]_vars

\* buyer 2 has removed product 1 from the cart and buyer 3, who has the same
\* product in the cart, still has the line
C22_Witness ==
    /\ \E r \in Reqs :
          /\ reqs[r].op = "removeFromCart" /\ Done(r) /\ reqs[r].status = 200
          /\ reqs[r].buyerId = 2 /\ reqs[r].productId = Some(1)
    /\ LinesFor(2, 1) = {}
    /\ LinesFor(3, 1) # {}

\* an addToCart call without a quantity is answered by its write in this step
OmittedQuantityWrite(r) ==
    /\ reqs[r].op = "addToCart" /\ reqs[r].quantity = None
    /\ reqs[r].pc \in {"createItem", "updateItem"}
    /\ reqs'[r].pc = "done"

\* C23: addToCart without a quantity acts as addToCart with quantity 1: a line
\* it creates has quantity 1, and a line it finds is incremented by 1 and the
\* call is answered 200.
C23_OmittedQuantityIsOne ==
    [][ \A r \in Reqs : OmittedQuantityWrite(r) =>
          IF reqs[r].pc = "createItem"
          THEN reqs'[r].status = 201 =>
                  /\ Val(reqs'[r].body).quantity = 1
                  /\ cartProducts' = cartProducts \cup {Val(reqs'[r].body)}
          ELSE \A l \in cartProducts : l.id = Val(reqs[r].existingCartItem).id =>
                  /\ reqs'[r].status = 200
                  /\ cartProducts' =
                        (cartProducts \ {l}) \cup {[l EXCEPT !.quantity = l.quantity + 1]}
    ]_vars

\* buyer b has an addToCart call that is not answered yet
AddInProgress(b) ==
    \E r \in Reqs : /\ reqs[r].op = "addToCart" /\ reqs[r].buyerId = b
                    /\ reqs[r].pc \notin {"idle", "done"}

\* C24: when all addToCart calls of a buyer were answered with an error (here
\* every call is for a missing or unknown product id), the buyer has no Cart
\* row and no line, and getCart answers 404.
C24_FailedAddChangesNothing ==
    /\ \A r \in Reqs : DoneAdd(r) => reqs[r].status >= 400
    /\ \A b \in BuyerIds : ~AddInProgress(b) =>
          /\ CartsOf(b) = {}
          /\ \A r \in Reqs :
                (reqs[r].op = "getCart" /\ Done(r) /\ reqs[r].buyerId = b)
                    => reqs[r].status = 404
    /\ cartProducts = {}

\* the fields a user may be shown with
PublicFields == {"id", "name", "email", "role"}

\* C25: no response of createUser, loginUser, getAllUsers, getUserById or
\* deleteUser carries a stored password hash: a user appears in a response
\* with id, name, email and role only.
C25_NoPasswordInResponses ==
    \A r \in Reqs : (Done(r) /\ reqs[r].body # None) =>
        LET body == Val(reqs[r].body)
        IN  /\ reqs[r].op = "getAllUsers" => \A u \in body : DOMAIN u = PublicFields
            /\ reqs[r].op = "getUserById" => DOMAIN body = PublicFields
            /\ reqs[r].op = "loginUser" => DOMAIN body.user = PublicFields
            /\ reqs[r].op = "deleteUser" => DOMAIN body = PublicFields
            /\ reqs[r].op # "createUser"

\* every cart has its buyer
CartBuyersExist == \A c \in carts : c.buyerId \in UserIds

\* a deleteUser call is served in this step
DeleteUserStep(r) == reqs[r].pc = "idle" /\ reqs'[r].op = "deleteUser"

\* C26: every Cart references an existing user in every reachable state;
\* deleteUser on a user who owns a Cart row is answered with an error and
\* deletes nothing, deleteUser on a stored user without a cart removes the user.
C26_CartsKeepTheirBuyer ==
    /\ []CartBuyersExist
    /\ [][ \A r \in Reqs : DeleteUserStep(r) =>
             LET id == Val(reqs'[r].id)
             IN  /\ CartsOf(id) # {} => reqs'[r].status >= 400 /\ db' = db
                 /\ (id \in UserIds /\ CartsOf(id) = {}) =>
                       /\ reqs'[r].status = 200
                       /\ id \notin {u.id : u \in users'}
                       /\ carts' = carts ]_vars

\* buyer 2, who has a cart with a line, was refused and is still stored with
\* the cart and the line; buyer 3, who has no cart, was deleted
C26_Witness ==
    /\ \E r \in Reqs :
          /\ reqs[r].op = "deleteUser" /\ Done(r)
          /\ reqs[r].id = Some(2) /\ reqs[r].status = 500
    /\ \E r \in Reqs :
          /\ reqs[r].op = "deleteUser" /\ Done(r)
          /\ reqs[r].id = Some(3) /\ reqs[r].status = 200
    /\ 2 \in UserIds /\ 3 \notin UserIds
    /\ SeedCart \in carts
    /\ SeedLine \in cartProducts

====
